---- MODULE Spec2Model ----
(***************************************************************************)
(* Model of the numerical core of the CESM-LENS cookbook notebook          *)
(* (src/unnamed/part_000): the per-slice trend fit (calc_slope), the       *)
(* December-anchored seasonal resample, the duration-weighted annual mean  *)
(* of the observations (weighted_temporal_mean), the area-weighted         *)
(* spatial mean, the chunk layout of linear_trend and the loading of the   *)
(* chunked trend by the workers of the dask Client.                        *)
(*                                                                         *)
(* Floating-point values are modelled as exact rationals extended with     *)
(* the IEEE specials NaN, +Inf and -Inf; rounding is not modelled.  A      *)
(* value is a record [k, n, d]: k = "num" for the rational n/d in lowest   *)
(* terms with d > 0, or k in {"nan", "pinf", "ninf"}; k = "raise" stands   *)
(* for a call that ends in a Python exception instead of a value, and      *)
(* k = "none" for a name that is not bound yet.                            *)
(***************************************************************************)
EXTENDS Integers, Sequences, FiniteSets, TLC

VARIABLES
    pc,              \* position of the notebook stage being modelled
    y,               \* calc_slope: the 1-D time slice handed to the ufunc
    slope,           \* calc_slope: its return value
    t_time,          \* seasons: time axis of t (month indices, ascending)
    resampled,       \* seasons: t.sel(...).resample(time="QS-DEC").mean("time")
    seasons,         \* seasons: resampled.sel(time=slice("1979", "2012"))
    winter_seasons,  \* seasons: the periods of seasons labelled in December
    obs_time,        \* weighted_temporal_mean: ds.time (month indices)
    obs,             \* weighted_temporal_mean: ds["air"], obs[t][cell]
    wgts,            \* weighted_temporal_mean: wgts[t]
    obs_sum,         \* weighted_temporal_mean: obs_sum[year][cell]
    ones_out,        \* weighted_temporal_mean: ones_out[year][cell]
    obs_ratio,       \* weighted_temporal_mean: (obs_sum / ones_out)[year][cell]
    obs_s,           \* weighted_temporal_mean: the returned series, obs_s[year]
    cell_area,       \* spatial mean: grid.area, cell_area[cell]
    total_area,      \* spatial mean: cell_area.sum()
    t_year,          \* spatial mean: the samples of one member and year, t_year[cell][s]
    t_annual,        \* spatial mean: resample(time="AS").mean("time") at that year
    t_ts,            \* spatial mean: the weighted mean at that member and year
    dims,            \* chunking: length of the time, lat and lon axes
    chunks,          \* chunking: chunk sizes along each axis of the array
    trend_chunks,    \* chunking: chunk sizes of the apply_ufunc output
    da,              \* trend: the seasonal field, da[lat, lon] a time series
    nworkers,        \* trend: worker slots of the Client's cluster
    task,            \* trend: status of the task of each chunk
    block,           \* trend: the block each finished task produced
    order,           \* trend: the chunks in the order their tasks finished
    trend,           \* trend: the array .load() returns
    winter_trends,   \* trend: trend * len(winter_seasons.time)
    ensemble_index,  \* figure: the loop variable of the member plots
    plot_index,      \* figure: 1-based subplot index handed to plt.subplot
    plotRow,         \* figure: row of axs the axes is stored in
    plotCol,         \* figure: column of axs the axes is stored in
    axs,             \* figure: axs[row][col], the subplot index of the axes held
    ds_lon,          \* longitude remap: ds.lon, in degrees
    ds_col           \* longitude remap: the data column at each position

slopeVars == <<y, slope>>
seasonVars == <<t_time, resampled, seasons, winter_seasons>>
obsVars == <<obs_time, obs, wgts, obs_sum, ones_out, obs_ratio, obs_s>>
areaVars == <<cell_area, total_area, t_year, t_annual, t_ts>>
chunkVars == <<dims, chunks, trend_chunks>>
trendVars == <<da, nworkers, task, block, order, trend, winter_trends>>
figVars == <<ensemble_index, plot_index, plotRow, plotCol, axs>>
lonVars == <<ds_lon, ds_col>>

---------------------------------------------------------------------------
(* Extended-rational arithmetic standing in for float64.                   *)

Abs(a) == IF a < 0 THEN -a ELSE a

RECURSIVE Gcd(_, _)
Gcd(a, b) == IF b = 0 THEN a ELSE Gcd(b, a % b)

NaN  == [k |-> "nan",  n |-> 0, d |-> 1]
PInf == [k |-> "pinf", n |-> 0, d |-> 1]
NInf == [k |-> "ninf", n |-> 0, d |-> 1]
Raise == [k |-> "raise", n |-> 0, d |-> 1]
\* A name that has not been assigned yet.
None == [k |-> "none", n |-> 0, d |-> 1]

\* The rational n/d (d # 0) in lowest terms with a positive denominator.
Q(n, d) ==
    LET g == Gcd(Abs(n), Abs(d))
        s == IF d < 0 THEN -1 ELSE 1
    IN  [k |-> "num", n |-> (s * n) \div g, d |-> (s * d) \div g]

I(n) == Q(n, 1)

IsNum(a) == a.k = "num"
IsNaN(a) == a.k = "nan"
IsInf(a) == a.k \in {"pinf", "ninf"}
Sign(a) == CASE a.k = "pinf" -> 1
             [] a.k = "ninf" -> -1
             [] OTHER -> IF a.n > 0 THEN 1 ELSE IF a.n < 0 THEN -1 ELSE 0

FNeg(a) == CASE a.k = "num" -> Q(-a.n, a.d)
             [] a.k = "pinf" -> NInf
             [] a.k = "ninf" -> PInf
             [] OTHER -> a

FAdd(a, b) ==
    CASE IsNaN(a) \/ IsNaN(b) -> NaN
      [] IsNum(a) /\ IsNum(b) -> Q(a.n * b.d + b.n * a.d, a.d * b.d)
      [] IsInf(a) /\ IsInf(b) -> IF a.k = b.k THEN a ELSE NaN
      [] IsInf(a) -> a
      [] OTHER -> b

FSub(a, b) == FAdd(a, FNeg(b))

FMul(a, b) ==
    CASE IsNaN(a) \/ IsNaN(b) -> NaN
      [] IsNum(a) /\ IsNum(b) -> Q(a.n * b.n, a.d * b.d)
      [] Sign(a) * Sign(b) = 0 -> NaN
      [] Sign(a) * Sign(b) > 0 -> PInf
      [] OTHER -> NInf

\* numpy true division: x/0 is +-inf, 0/0 is nan (a RuntimeWarning, no exception).
FDiv(a, b) ==
    CASE IsNaN(a) \/ IsNaN(b) -> NaN
      [] IsNum(a) /\ IsNum(b) ->
            IF b.n # 0 THEN Q(a.n * b.d, a.d * b.n)
            ELSE IF a.n = 0 THEN NaN
            ELSE IF a.n > 0 THEN PInf ELSE NInf
      [] IsInf(a) /\ IsInf(b) -> NaN
      [] IsInf(a) -> IF Sign(a) * (IF Sign(b) < 0 THEN -1 ELSE 1) > 0
                     THEN PInf ELSE NInf
      [] OTHER -> I(0)

\* Sum of a sequence of values, left to right.
RECURSIVE FSum(_)
FSum(s) == IF s = <<>> THEN I(0) ELSE FAdd(Head(s), FSum(Tail(s)))

\* A reduction with skipna=True (xarray's default for floats): NaN counts as 0.
NanToZero(a) == IF IsNaN(a) THEN I(0) ELSE a

RECURSIVE NanSum(_)
NanSum(s) == IF s = <<>> THEN I(0) ELSE FAdd(NanToZero(Head(s)), NanSum(Tail(s)))

\* arr[mask] for a boolean mask of the same length.
RECURSIVE MaskSelect(_, _)
MaskSelect(arr, mask) ==
    IF arr = <<>> THEN <<>>
    ELSE (IF Head(mask) THEN <<Head(arr)>> ELSE <<>>)
         \o MaskSelect(Tail(arr), Tail(mask))

\* np.sum of a boolean array: the number of True entries.
RECURSIVE CountTrue(_)
CountTrue(mask) ==
    IF mask = <<>> THEN 0
    ELSE (IF Head(mask) THEN 1 ELSE 0) + CountTrue(Tail(mask))

---------------------------------------------------------------------------
(* calc_slope and the degree-1 fit it calls.                               *)

MaxT == 4

\* The synthetic linear series y[i] = 2*i + 5.
LinearAt(i) == 2 * i + 5

YVals == {NaN} \cup {I(v) : v \in {0, 1} \cup {LinearAt(i) : i \in 0 .. MaxT - 1}}

Slices == UNION {[1 .. T -> YVals] : T \in 0 .. MaxT}

\* np.arange(n) as a sequence of values.
arange(n) == [i \in 1 .. n |-> I(i - 1)]

SeqMul(a, b) == [i \in 1 .. Len(a) |-> FMul(a[i], b[i])]

\* np.polyfit(xs, ys, 1)[0].  For two or more points with distinct abscissae
\* this is the least-squares solution of the normal equations; an empty
\* input raises TypeError; a single point is rank deficient and lstsq
\* returns the minimum-norm solution of the column-scaled system (slope
\* y0 / (2 x0)), or fails on the NaN column that scaling by zero produces.
polyfit_slope(xs, ys) ==
    LET n   == I(Len(xs))
        sx  == FSum(xs)
        sy  == FSum(ys)
        sxy == FSum(SeqMul(xs, ys))
        sxx == FSum(SeqMul(xs, xs))
        den == FSub(FMul(n, sxx), FMul(sx, sx))
        num == FSub(FMul(n, sxy), FMul(sx, sy))
    IN  IF Len(xs) = 0 THEN Raise
        ELSE IF Len(xs) = 1
             THEN IF xs[1].n = 0 THEN Raise
                  ELSE FDiv(ys[1], FMul(I(2), xs[1]))
        ELSE FDiv(num, den)

finite_indexes(ys) == [i \in 1 .. Len(ys) |-> ~IsNaN(ys[i])]

\* Variants of calc_slope with one plausible slip each.
\* The finite-count guard is off by one (< 1 for < 2).
calc_slope_guard1(ys) ==
    LET x == arange(Len(ys))
        fin == finite_indexes(ys)
    IN  IF CountTrue(fin) < 1 THEN NaN
        ELSE polyfit_slope(MaskSelect(x, fin), MaskSelect(ys, fin))

\* x is built after the drop, so the surviving samples are renumbered.
calc_slope_renumbered(ys) ==
    LET fin == finite_indexes(ys)
        x == arange(CountTrue(fin))
    IN  IF CountTrue(fin) < 2 THEN NaN
        ELSE polyfit_slope(x, MaskSelect(ys, fin))

\* The arguments of the fit are exchanged (index fitted against value).
calc_slope_swapped(ys) ==
    LET x == arange(Len(ys))
        fin == finite_indexes(ys)
    IN  IF CountTrue(fin) < 2 THEN NaN
        ELSE polyfit_slope(MaskSelect(ys, fin), MaskSelect(x, fin))

calc_slope(ys) ==
    LET x == arange(Len(ys))
        fin == finite_indexes(ys)
    IN  IF CountTrue(fin) < 2 THEN NaN
        ELSE polyfit_slope(MaskSelect(x, fin), MaskSelect(ys, fin))

---------------------------------------------------------------------------
(* Specification SpecSlope: one call of calc_slope on an arbitrary slice.  *)

vars ==
    <<pc, slopeVars, seasonVars, obsVars, areaVars, chunkVars, trendVars,
      figVars, lonVars>>

SlopeIdle == y = <<>> /\ slope = None
SeasonsIdle ==
    t_time = <<>> /\ resampled = <<>> /\ seasons = <<>> /\ winter_seasons = <<>>
ObsIdle ==
    /\ obs_time = <<>> /\ obs = <<>> /\ wgts = <<>> /\ obs_sum = <<>>
    /\ ones_out = <<>> /\ obs_ratio = <<>> /\ obs_s = <<>>

AreaIdle ==
    /\ cell_area = <<>> /\ total_area = None /\ t_year = <<>>
    /\ t_annual = <<>> /\ t_ts = None

ChunksIdle == dims = <<>> /\ chunks = <<>> /\ trend_chunks = <<>>

TrendIdle ==
    /\ da = <<>> /\ nworkers = 0 /\ task = <<>> /\ block = <<>>
    /\ order = <<>> /\ trend = <<>> /\ winter_trends = <<>>

FigureIdle ==
    /\ ensemble_index = 0 /\ plot_index = 0 /\ plotRow = 0 /\ plotCol = 0
    /\ axs = <<>>

LonIdle == ds_lon = <<>> /\ ds_col = <<>>

InitSlope ==
    /\ pc = "slice"
    /\ y \in Slices
    /\ slope = None
    /\ SeasonsIdle
    /\ ObsIdle
    /\ AreaIdle
    /\ ChunksIdle
    /\ TrendIdle
    /\ FigureIdle
    /\ LonIdle

CalcSlope ==
    /\ pc = "slice"
    /\ slope' = calc_slope(y)
    /\ pc' = "slope"
    /\ UNCHANGED <<y, seasonVars, obsVars, areaVars,
                   chunkVars, trendVars, figVars, lonVars>>

NextSlope == CalcSlope

SpecSlope == InitSlope /\ [][NextSlope]_vars

\* Positions (1-based) of the slice that hold a value; the sample at
\* position p has integer sample index p - 1.
FinitePos(ys) == {p \in DOMAIN ys : ys[p] # NaN}

\* Sum of the integer-valued function f over the finite set S.
RECURSIVE SetSum(_, _)
SetSum(S, f) ==
    IF S = {} THEN 0
    ELSE LET e == CHOOSE e \in S : TRUE IN f[e] + SetSum(S \ {e}, f)

\* C1: a slice with fewer than 2 finite samples (none, or exactly one)
\* makes calc_slope return NaN, and the call does not raise.
C1_FewFiniteGivesNaN ==
    (pc = "slope" /\ Cardinality(FinitePos(y)) < 2)
        => (slope = NaN /\ slope.k # "raise")

\* C1 witness: a slice of length >= 2 with exactly one finite sample, away
\* from index 0, has been fitted.
C1_Witness ==
    /\ pc = "slope"
    /\ Len(y) >= 2
    /\ \E p \in DOMAIN y : p > 1 /\ FinitePos(y) = {p}
    /\ slope = NaN

\* C2: with at least 2 finite samples the result is the least-squares
\* slope of the points (i, y[i]) over the finite indices at their original
\* positions, stated in pairwise form:
\*   slope * sum_{p,q} (p - q)^2 = sum_{p,q} (p - q) (y[p] - y[q]);
\* and a slice whose finite samples all lie on y[i] = 2 i + 5 has slope 2.
C2_SlopeIsOLSOnOriginalIndices ==
    (pc = "slope" /\ Cardinality(FinitePos(y)) >= 2) =>
        LET F == FinitePos(y)
            Pairs == F \X F
            dx(pq) == pq[1] - pq[2]
            \* the samples are integers here, so y[p].d = 1
            dy(pq) == y[pq[1]].n - y[pq[2]].n
            Sxx == SetSum(Pairs, [pq \in Pairs |-> dx(pq) * dx(pq)])
            Sxy == SetSum(Pairs, [pq \in Pairs |-> dx(pq) * dy(pq)])
        IN  /\ IsNum(slope)
            /\ \A p \in F : y[p].d = 1
            /\ slope.n * Sxx = slope.d * Sxy
            /\ (\A p \in F : y[p] = I(LinearAt(p - 1))) => slope = I(2)

\* C2 witness: a linear slice with a dropped sample strictly between
\* surviving ones, and at least 3 survivors, was fitted to slope 2.
C2_Witness ==
    /\ pc = "slope"
    /\ Cardinality(FinitePos(y)) >= 3
    /\ \E p \in DOMAIN y : /\ y[p] = NaN
                            /\ \E a, b \in FinitePos(y) : a < p /\ p < b
    /\ \A p \in FinitePos(y) : y[p] = I(LinearAt(p - 1))
    /\ slope = I(2)

\* C3: with exactly two finite samples, at indices i < j, the result is
\* the two-point slope (y[j] - y[i]) / (j - i), a number and no failure;
\* two equal values give slope zero.
C3_TwoPointSlope ==
    (pc = "slope" /\ Cardinality(FinitePos(y)) = 2) =>
        \A i, j \in FinitePos(y) :
            i < j => /\ slope = FDiv(FSub(y[j], y[i]), I(j - i))
                     /\ IsNum(slope)
                     /\ (y[i] = y[j] => slope = I(0))

\* C3 witness: two finite samples more than one index apart, with
\* different values, were fitted to a slope that is not their plain
\* difference.
C3_Witness ==
    /\ pc = "slope"
    /\ Cardinality(FinitePos(y)) = 2
    /\ \E i, j \in FinitePos(y) :
          /\ j - i >= 2
          /\ y[i] # y[j]
          /\ slope = Q(y[j].n - y[i].n, j - i)
          /\ slope # I(y[j].n - y[i].n)

---------------------------------------------------------------------------
(* Seasonal resample: the time axis in whole months.  A month index is     *)
(* year * 12 + (month - 1); a sample stands for all the samples (daily or  *)
(* monthly) of that calendar month.                                        *)

MonthIdx(year, month) == year * 12 + (month - 1)
YearOf(mi) == mi \div 12
MonthOf(mi) == (mi % 12) + 1

SelFirstYear == 1979
SelLastYear == 2012
ExpectedSeasons == 34

\* How far, in months, the data may start or end before or after the
\* first and last month of the selected years.
DataSlack == 12

\* A contiguous ascending time axis first .. last.
MonthRange(first, last) == [i \in 1 .. (last - first + 1) |-> first + (i - 1)]

\* sel(time=slice("1979", "2012")) on a time axis: partial-string slicing
\* keeps every sample whose year lies in 1979..2012, both ends included.
InSelYears(mi) == YearOf(mi) >= SelFirstYear /\ YearOf(mi) <= SelLastYear

SelTime(axis) == SelectSeq(axis, InSelYears)

\* Start of the quarter containing month mi, quarters starting in January,
\* April, July and October (the frequency "QS").
QuarterStartJan(mi) == mi - ((MonthOf(mi) - 1) % 3)

\* Start of the quarter containing month mi for the frequency "QS-DEC":
\* quarters start in December, March, June and September.
QuarterStart(mi) == mi - (MonthOf(mi) % 3)

\* Each period also takes the first month of the next quarter.
Resample_window4(axis) ==
    IF axis = <<>> THEN <<>>
    ELSE LET lo == QuarterStart(axis[1])
             hi == QuarterStart(axis[Len(axis)])
             n == ((hi - lo) \div 3) + 1
             InAxis(m) == \E i \in 1 .. Len(axis) : axis[i] = m
         IN  [k \in 1 .. n |->
                [label |-> lo + 3 * (k - 1),
                 months |-> {m \in (lo + 3 * (k - 1)) .. (lo + 3 * (k - 1) + 3) :
                                InAxis(m)}]]

\* Periods that lack one of their three months are not emitted.
Resample_complete_only(axis) ==
    IF axis = <<>> THEN <<>>
    ELSE LET lo == QuarterStart(axis[1])
             hi == QuarterStart(axis[Len(axis)])
             n == ((hi - lo) \div 3) + 1
             InAxis(m) == \E i \in 1 .. Len(axis) : axis[i] = m
             all == [k \in 1 .. n |->
                       [label |-> lo + 3 * (k - 1),
                        months |-> {m \in (lo + 3 * (k - 1)) .. (lo + 3 * (k - 1) + 2) :
                                       InAxis(m)}]]
             Full(p) == Cardinality(p.months) = 3
         IN  SelectSeq(all, Full)

\* resample(time="QS-DEC").mean("time"): one period per quarter from the
\* quarter of the first sample to the quarter of the last, labelled by the
\* quarter's first month; months are the sampled months it averages.
Resample(axis) ==
    IF axis = <<>> THEN <<>>
    ELSE LET lo == QuarterStart(axis[1])
             hi == QuarterStart(axis[Len(axis)])
             n == ((hi - lo) \div 3) + 1
             InAxis(m) == \E i \in 1 .. Len(axis) : axis[i] = m
         IN  [k \in 1 .. n |->
                [label |-> lo + 3 * (k - 1),
                 months |-> {m \in (lo + 3 * (k - 1)) .. (lo + 3 * (k - 1) + 2) :
                                InAxis(m)}]]

PeriodInSelYears(p) == InSelYears(p.label)

\* seasons.sel(time=slice("1979", "2012")): by the period labels.
SelPeriods(periods) == SelectSeq(periods, PeriodInSelYears)

LabelIsDecember(p) == MonthOf(p.label) = 12

\* seasons.sel(time=seasons.time.where(seasons.time.dt.month == 12, drop=True))
WinterOf(periods) == SelectSeq(periods, LabelIsDecember)

InitSeasons ==
    /\ pc = "t"
    /\ \E first \in (MonthIdx(SelFirstYear, 1) - DataSlack) ..
                     (MonthIdx(SelFirstYear, 1) + DataSlack),
          last \in (MonthIdx(SelLastYear, 12) - DataSlack) ..
                    (MonthIdx(SelLastYear, 12) + DataSlack) :
          t_time = MonthRange(first, last)
    /\ resampled = <<>>
    /\ seasons = <<>>
    /\ winter_seasons = <<>>
    /\ SlopeIdle
    /\ ObsIdle
    /\ AreaIdle
    /\ ChunksIdle
    /\ TrendIdle
    /\ FigureIdle
    /\ LonIdle

\* The cell "Compute ensemble trends" (the same two statements build
\* obs_seasons).
ComputeSeasons ==
    /\ pc = "t"
    /\ resampled' = Resample(SelTime(t_time))
    /\ seasons' = SelPeriods(Resample(SelTime(t_time)))
    /\ pc' = "seasons"
    /\ UNCHANGED <<t_time, winter_seasons, slopeVars, obsVars,
                   areaVars, chunkVars, trendVars, figVars, lonVars>>

SelectWinters ==
    /\ pc = "seasons"
    /\ winter_seasons' = WinterOf(seasons)
    /\ pc' = "winter"
    /\ UNCHANGED <<t_time, resampled, seasons, slopeVars, obsVars,
                   areaVars, chunkVars, trendVars, figVars, lonVars>>

\* assert len(winter_seasons.time) == 34
AssertSeasonCount ==
    /\ pc = "winter"
    /\ pc' = IF Len(winter_seasons) = ExpectedSeasons
             THEN "asserted" ELSE "AssertionError"
    /\ UNCHANGED <<seasonVars, slopeVars, obsVars, areaVars,
                   chunkVars, trendVars, figVars, lonVars>>

NextSeasons == ComputeSeasons \/ SelectWinters \/ AssertSeasonCount

SpecSeasons == InitSeasons /\ [][NextSeasons]_vars

\* The data cover every month from January 1979 to December 2012.
CoversSelYears ==
    /\ t_time # <<>>
    /\ t_time[1] <= MonthIdx(SelFirstYear, 1)
    /\ t_time[Len(t_time)] >= MonthIdx(SelLastYear, 12)

\* The three calendar months of the quarter labelled p.label.
QuarterMonths(p) == p.label .. (p.label + 2)

\* C4: for samples covering January 1979 to December 2012, the resample,
\* the selection of the labels in 1979..2012 and the selection of the
\* December labels leave exactly 34 winter seasons, one per December of
\* 1979..2012, and the assertion passes.
C4_ThirtyFourWinters ==
    (CoversSelYears /\ pc \in {"winter", "asserted", "AssertionError"}) =>
        /\ Len(winter_seasons) = 34
        /\ {winter_seasons[i].label : i \in 1 .. Len(winter_seasons)}
              = {MonthIdx(yr, 12) : yr \in SelFirstYear .. SelLastYear}
        /\ pc # "AssertionError"

\* C4 witness: the assertion has passed on data that reach beyond the
\* selected years at both ends.
C4_Witness ==
    /\ pc = "asserted"
    /\ t_time[1] < MonthIdx(SelFirstYear, 1)
    /\ t_time[Len(t_time)] > MonthIdx(SelLastYear, 12)
    /\ Len(winter_seasons) = 34

\* C5: for data covering the selected years, every period kept by the
\* second selection, and so every winter kept, averages samples of all
\* three of its calendar months.
C5_OnlyFullSeasons ==
    (CoversSelYears /\ pc \in {"seasons", "winter", "asserted"}) =>
        /\ \A i \in 1 .. Len(seasons) :
              seasons[i].months = QuarterMonths(seasons[i])
        /\ \A i \in 1 .. Len(winter_seasons) :
              winter_seasons[i].months = QuarterMonths(winter_seasons[i])

---------------------------------------------------------------------------
(* weighted_temporal_mean: the duration-weighted annual mean of the        *)
(* monthly observations.                                                   *)

\* Number of monthly samples on the time axis of the observations.
NTime == 3

ObsCells == {1, 2}
ObsVals == {NaN, I(-1), I(2)}

\* First months the record may start at: October 1851 to March 1852, so
\* that a record lies inside one year or runs across the turn of the year,
\* with or without the February of a leap year.
ObsStarts == MonthIdx(1851, 10) .. MonthIdx(1852, 3)

IsLeap(yr) == (yr % 4 = 0 /\ yr % 100 # 0) \/ yr % 400 = 0

\* ds.time_bnds.diff(dim="nbnds")[:, 0] for a monthly record: the length
\* of the month in days.
DaysIn(mi) ==
    LET m == MonthOf(mi)
    IN  IF m = 2 THEN (IF IsLeap(YearOf(mi)) THEN 29 ELSE 28)
        ELSE IF m \in {4, 6, 9, 11} THEN 30 ELSE 31

\* Positions of the time axis that fall in calendar year yr, ascending.
RECURSIVE YearPos(_, _, _)
YearPos(time, yr, from) ==
    IF from > Len(time) THEN <<>>
    ELSE (IF YearOf(time[from]) = yr THEN <<from>> ELSE <<>>)
         \o YearPos(time, yr, from + 1)

\* The calendar years the "AS" resample emits for a time axis: every
\* year from that of the first sample to that of the last.
ResampleYears(time) ==
    IF time = <<>> THEN <<>>
    ELSE [k \in 1 .. (YearOf(time[Len(time)]) - YearOf(time[1]) + 1) |->
            YearOf(time[1]) + (k - 1)]

\* time_bound_diff.groupby("time.year").sum(xr.ALL_DIMS) at year yr.
YearDuration(time, yr) ==
    LET pos == YearPos(time, yr, 1)
    IN  FSum([j \in 1 .. Len(pos) |-> I(DaysIn(time[pos[j]]))])

\* The division is by the duration of the whole record (no groupby).
Weights_ungrouped(time) ==
    LET total == FSum([j \in 1 .. Len(time) |-> I(DaysIn(time[j]))])
    IN  [t \in 1 .. Len(time) |-> FDiv(I(DaysIn(time[t])), total)]

\* wgts = time_bound_diff.groupby("time.year")
\*          / time_bound_diff.groupby("time.year").sum(xr.ALL_DIMS)
Weights(time) ==
    [t \in 1 .. Len(time) |->
        FDiv(I(DaysIn(time[t])), YearDuration(time, YearOf(time[t])))]

\* Every sample counts as valid.
Ones_all(v) == I(1)

\* ones = xr.where(cond, 0.0, 1.0) with cond = obs.isnull(), at one sample.
Ones(v) == IF IsNaN(v) THEN I(0) ELSE I(1)

\* A division that raises on a zero divisor (Python scalar semantics).
TrueDivide_raising(a, b) == IF IsNum(b) /\ b.n = 0 THEN Raise ELSE FDiv(a, b)

\* obs_sum / ones_out at one element: numpy true division.
TrueDivide(a, b) == FDiv(a, b)

\* (arr * w).resample(time="AS").sum(dim="time"): per year and cell, the
\* sum over the year's samples, skipping NaN (a year of NaN sums to 0).
AnnualSum(time, arr, w) ==
    LET yrs == ResampleYears(time)
    IN  [k \in 1 .. Len(yrs) |->
            [c \in ObsCells |->
                LET pos == YearPos(time, yrs[k], 1)
                IN  NanSum([j \in 1 .. Len(pos) |->
                               FMul(arr[pos[j]][c], w[pos[j]])])]]

\* .mean(("lat", "lon")) of one year's cells: the mean of the cells that
\* are not NaN, NaN when there is none.
RECURSIVE CellSeq(_)
CellSeq(S) ==
    IF S = {} THEN <<>>
    ELSE LET c == CHOOSE c \in S : \A e \in S : c <= e
         IN  <<c>> \o CellSeq(S \ {c})

\* The mean with skipna=False: NaN as soon as one entry is NaN.
NanMean_propagating(row) ==
    LET cs == CellSeq(DOMAIN row)
    IN  IF cs = <<>> THEN NaN
        ELSE FDiv(FSum([j \in 1 .. Len(cs) |-> row[cs[j]]]), I(Len(cs)))

NanMean(row) ==
    LET cs == CellSeq({c \in DOMAIN row : ~IsNaN(row[c])})
    IN  IF cs = <<>> THEN NaN
        ELSE FDiv(FSum([j \in 1 .. Len(cs) |-> row[cs[j]]]), I(Len(cs)))

\* ones = xr.where(cond, 0.0, 1.0) over the whole field.
OnesOf(arr) == [t \in 1 .. Len(arr) |-> [c \in ObsCells |-> Ones(arr[t][c])]]

\* obs_sum / ones_out, element by element.
Divide(osum, oout) ==
    [k \in 1 .. Len(osum) |->
        [c \in ObsCells |-> TrueDivide(osum[k][c], oout[k][c])]]

\* The value of (obs_sum / ones_out) for a record, as the function
\* computes it.
RatioOf(time, arr) ==
    LET w == Weights(time)
    IN  Divide(AnnualSum(time, arr, w), AnnualSum(time, OnesOf(arr), w))

InitObs ==
    /\ pc = "ds"
    /\ \E first \in ObsStarts : obs_time = MonthRange(first, first + NTime - 1)
    /\ obs \in [1 .. NTime -> [ObsCells -> ObsVals]]
    /\ wgts = <<>>
    /\ obs_sum = <<>>
    /\ ones_out = <<>>
    /\ obs_ratio = <<>>
    /\ obs_s = <<>>
    /\ SlopeIdle
    /\ SeasonsIdle
    /\ AreaIdle
    /\ ChunksIdle
    /\ TrendIdle
    /\ FigureIdle
    /\ LonIdle

\* obs_s = weighted_temporal_mean(ds)
WeightedTemporalMean ==
    /\ pc = "ds"
    /\ \E w \in {Weights(obs_time)} :
        \E osum \in {AnnualSum(obs_time, obs, w)},
           oout \in {AnnualSum(obs_time, OnesOf(obs), w)} :
          \E ratio \in {Divide(osum, oout)} :
            /\ wgts' = w
            /\ obs_sum' = osum
            /\ ones_out' = oout
            /\ obs_ratio' = ratio
            /\ obs_s' = [k \in 1 .. Len(ratio) |-> NanMean(ratio[k])]
            /\ pc' = IF \E k \in 1 .. Len(ratio), c \in ObsCells :
                           ratio[k][c] = Raise
                     THEN "ZeroDivisionError" ELSE "obs_s"
    /\ UNCHANGED <<obs_time, obs, slopeVars, seasonVars,
                   areaVars, chunkVars, trendVars, figVars, lonVars>>

NextObs == WeightedTemporalMean

SpecObs == InitObs /\ [][NextObs]_vars

\* Positions of the record in the k-th emitted year, and those among them
\* where cell c holds a value.
PosInYear(k) ==
    {t \in 1 .. Len(obs_time) : YearOf(obs_time[t]) = YearOf(obs_time[1]) + (k - 1)}
ValidPos(k, c) == {t \in PosInYear(k) : obs[t][c] # NaN}

DaysAt == [t \in 1 .. Len(obs_time) |-> DaysIn(obs_time[t])]
\* value * days at each position of cell c (0 where the sample is missing).
ValueDaysAt(c) ==
    [t \in 1 .. Len(obs_time) |-> IF obs[t][c] = NaN THEN 0
                                   ELSE obs[t][c].n * DaysIn(obs_time[t])]

\* C6: per cell and year, a missing month adds nothing to the numerator
\* and nothing to the denominator: obs_sum is the sum of value * weight
\* over the valid months, ones_out the sum of weight over the valid
\* months, and the annual value, where a month is valid, is
\*   sum_valid(value * days) / sum_valid(days).
C6_MissingExcludedFromBoth ==
    pc = "obs_s" =>
        \A k \in 1 .. Len(obs_ratio), c \in ObsCells :
            LET D == SetSum(PosInYear(k), DaysAt)
                V == ValidPos(k, c)
            IN  /\ obs_sum[k][c] = Q(SetSum(V, ValueDaysAt(c)), D)
                /\ ones_out[k][c] = Q(SetSum(V, DaysAt), D)
                /\ V # {} => obs_ratio[k][c]
                                = Q(SetSum(V, ValueDaysAt(c)), SetSum(V, DaysAt))

\* C6 witness: a cell with a missing month and two valid months of
\* different values in one year, whose annual value differs from the one
\* that counts the missing month as a zero value.
C6_Witness ==
    /\ pc = "obs_s"
    /\ \E k \in 1 .. Len(obs_ratio), c \in ObsCells :
          /\ Cardinality(ValidPos(k, c)) >= 2
          /\ ValidPos(k, c) # PosInYear(k)
          /\ \E a, b \in ValidPos(k, c) : obs[a][c] # obs[b][c]
          /\ IsNum(obs_ratio[k][c])
          /\ obs_ratio[k][c] # obs_sum[k][c]

\* C7: every month's weight is its days over the days of the months of
\* its calendar year, the weights of a year sum to one, and a cell with no
\* missing month in a year has ones_out = 1 and annual value
\* sum(value * weight) = sum(value * days) / days of the year.
C7_WeightsSumToOne ==
    pc = "obs_s" =>
        /\ \A k \in 1 .. Len(obs_ratio) :
              LET pos == YearPos(obs_time, YearOf(obs_time[1]) + (k - 1), 1)
                  D == SetSum(PosInYear(k), DaysAt)
              IN  /\ \A t \in PosInYear(k) : wgts[t] = Q(DaysAt[t], D)
                  /\ FSum([j \in 1 .. Len(pos) |-> wgts[pos[j]]]) = I(1)
        /\ \A k \in 1 .. Len(obs_ratio), c \in ObsCells :
              ValidPos(k, c) = PosInYear(k) =>
                  /\ ones_out[k][c] = I(1)
                  /\ obs_ratio[k][c] = obs_sum[k][c]
                  /\ obs_ratio[k][c]
                       = Q(SetSum(PosInYear(k), ValueDaysAt(c)),
                           SetSum(PosInYear(k), DaysAt))

\* C7 witness: a record that runs across two years, with a cell that has
\* no missing month and two different values in a year of two months.
C7_Witness ==
    /\ pc = "obs_s"
    /\ Len(obs_ratio) = 2
    /\ \E k \in 1 .. Len(obs_ratio), c \in ObsCells :
          /\ Cardinality(PosInYear(k)) >= 2
          /\ ValidPos(k, c) = PosInYear(k)
          /\ \E a, b \in PosInYear(k) : obs[a][c] # obs[b][c]
          /\ ones_out[k][c] = I(1)

\* The record with the samples of cell c in the k-th year replaced by the
\* valid value 2.
WithCellValid(k, c) ==
    [t \in 1 .. Len(obs) |->
        [e \in ObsCells |-> IF e = c /\ t \in PosInYear(k) THEN I(2)
                            ELSE obs[t][e]]]

\* C8: a cell with no valid month in a year gets NaN (0 / 0) at that year
\* and cell; every cell and year with a valid month gets a number; nothing
\* is raised; and every other cell and year has the value it would have
\* had with that cell valid.
C8_ZeroValidIsNaNThereOnly ==
    pc \in {"obs_s", "ZeroDivisionError"} =>
        /\ pc # "ZeroDivisionError"
        /\ \A k \in 1 .. Len(obs_ratio), c \in ObsCells :
              IF ValidPos(k, c) = {}
              THEN /\ obs_sum[k][c] = I(0)
                   /\ ones_out[k][c] = I(0)
                   /\ obs_ratio[k][c] = NaN
                   /\ LET other == RatioOf(obs_time, WithCellValid(k, c))
                      IN  \A k2 \in 1 .. Len(obs_ratio), c2 \in ObsCells :
                            <<k2, c2>> # <<k, c>> =>
                                obs_ratio[k2][c2] = other[k2][c2]
              ELSE IsNum(obs_ratio[k][c])

\* C8 witness: one cell has a year with no valid month and the other cell
\* has a number in that year.
C8_Witness ==
    /\ pc = "obs_s"
    /\ \E k \in 1 .. Len(obs_ratio), c, c2 \in ObsCells :
          /\ Cardinality(PosInYear(k)) >= 2
          /\ ValidPos(k, c) = {}
          /\ obs_ratio[k][c] = NaN
          /\ c2 # c
          /\ IsNum(obs_ratio[k][c2])

---------------------------------------------------------------------------
(* The area-weighted spatial mean of the annual means, at one member and   *)
(* one year (every member and year is computed alike, element by element). *)

\* Largest cell area; areas are whole numbers 0 .. MaxArea.
MaxArea == 2

\* The (lat, lon) cells of the grid, numbered in row-major order.
GridCells == {1, 2, 3}
\* Positions of the samples of the year on the time axis.
YearSamples == {1, 2}
FieldVals == {NaN, I(1), I(2)}

\* Sum over the cells of a cell-indexed array, NaN skipped (xarray's sum).
CellNanSum(arr) ==
    LET cs == CellSeq(DOMAIN arr)
    IN  NanSum([j \in 1 .. Len(cs) |-> arr[cs[j]]])

\* total_area = cell_area.sum()
TotalArea(area) == CellNanSum(area)

\* t.resample(time="AS").mean("time") at the year: per cell, the mean of
\* the samples that are not NaN.
AnnualMean(samples) == [c \in DOMAIN samples |-> NanMean(samples[c])]

\* The field is summed without the cell areas.
WeightedMean_noweights(annual, area, total) ==
    FDiv(CellNanSum(annual), total)

\* The areas of the cells with a missing value are left out of the divisor.
WeightedMean_masked(annual, area, total) ==
    FDiv(CellNanSum([c \in DOMAIN annual |-> FMul(annual[c], area[c])]),
         CellNanSum([c \in DOMAIN annual |->
                        IF IsNaN(annual[c]) THEN I(0) ELSE area[c]]))

\* The division raises on a zero total area instead of returning 0 / 0.
WeightedMean_raising(annual, area, total) ==
    IF total = I(0) THEN Raise
    ELSE FDiv(CellNanSum([c \in DOMAIN annual |-> FMul(annual[c], area[c])]), total)

\* (annual * cell_area).sum(dim=("lat", "lon")) / total_area
WeightedMean(annual, area, total) ==
    FDiv(CellNanSum([c \in DOMAIN annual |-> FMul(annual[c], area[c])]), total)

InitArea ==
    /\ pc = "grid"
    /\ cell_area \in [GridCells -> {I(a) : a \in 0 .. MaxArea}]
    /\ total_area = None
    /\ t_year \in [GridCells -> [YearSamples -> FieldVals]]
    /\ t_annual = <<>>
    /\ t_ts = None
    /\ SlopeIdle
    /\ SeasonsIdle
    /\ ObsIdle
    /\ ChunksIdle
    /\ TrendIdle
    /\ FigureIdle
    /\ LonIdle

\* cell_area = grid.area.load(); total_area = cell_area.sum()
LoadCellArea ==
    /\ pc = "grid"
    /\ total_area' = TotalArea(cell_area)
    /\ pc' = "area"
    /\ UNCHANGED <<cell_area, t_year, t_annual, t_ts>>
    /\ UNCHANGED <<slopeVars, seasonVars, obsVars,
                   chunkVars, trendVars, figVars, lonVars>>

\* t_hist_ts, t_20c_ts, t_rcp_ts (and t_ref_ts before its final mean).
DefineWeightedMeans ==
    /\ pc = "area"
    /\ \E annual \in {AnnualMean(t_year)} :
          /\ t_annual' = annual
          /\ t_ts' = WeightedMean(annual, cell_area, total_area)
    /\ pc' = "ts"
    /\ UNCHANGED <<cell_area, total_area, t_year>>
    /\ UNCHANGED <<slopeVars, seasonVars, obsVars,
                   chunkVars, trendVars, figVars, lonVars>>

NextArea == LoadCellArea \/ DefineWeightedMeans

SpecArea == InitArea /\ [][NextArea]_vars

\* Sum of the value-valued function f over the finite set S.
RECURSIVE RatSum(_, _)
RatSum(S, f) ==
    IF S = {} THEN I(0)
    ELSE LET e == CHOOSE e \in S : TRUE IN FAdd(f[e], RatSum(S \ {e}, f))

\* The cells where the annual field holds a value.
ValidCells == {c \in GridCells : t_annual[c] # NaN}

\* F * W at the cells where F holds a value, and W at every cell.
FieldTimesArea == [c \in ValidCells |-> FMul(t_annual[c], cell_area[c])]
AreaOfAll == [c \in GridCells |-> cell_area[c]]

\* The weights are one positive constant over lat and lon.
UniformArea ==
    \E a \in 1 .. MaxArea : \A c \in GridCells : cell_area[c] = I(a)

\* The unweighted mean over lat and lon as xarray's .mean computes it (over
\* the cells that hold a value), and as plain arithmetic does (NaN as soon
\* as one value is missing).
MeanOverValid ==
    IF ValidCells = {} THEN NaN
    ELSE FDiv(RatSum(ValidCells, t_annual), I(Cardinality(ValidCells)))
MeanOverAll ==
    IF ValidCells # GridCells THEN NaN
    ELSE FDiv(RatSum(GridCells, t_annual), I(Cardinality(GridCells)))

\* The result equals sum(F * W) / sum(W): total_area is the sum of the
\* areas and, where that is not zero, result * sum(W) = sum(F * W).
ResultIsWeightedQuotient ==
    /\ total_area = RatSum(GridCells, AreaOfAll)
    /\ total_area # I(0) =>
          /\ IsNum(t_ts)
          /\ FMul(t_ts, RatSum(GridCells, AreaOfAll))
                = RatSum(ValidCells, FieldTimesArea)

\* C9 as stated: the result is sum(F * W) / sum(W), and for every uniform
\* positive weight array it equals the unweighted mean of the values over
\* lat and lon, whatever the field.
C9_UniformIsUnweightedMean_AnyField ==
    pc = "ts" =>
        /\ ResultIsWeightedQuotient
        /\ UniformArea => (t_ts = MeanOverValid \/ t_ts = MeanOverAll)

\* C9 amended: the result is sum(F * W) / sum(W), the numerator skipping
\* missing values; for every uniform positive weight array and every field
\* with no missing value over lat and lon, it equals the unweighted mean of
\* the values.
C9_UniformIsUnweightedMean ==
    pc = "ts" =>
        /\ ResultIsWeightedQuotient
        /\ (UniformArea /\ ValidCells = GridCells) =>
              /\ t_ts = MeanOverAll
              /\ t_ts = MeanOverValid

\* C9 witness: uniform areas larger than one, no missing value, cells with
\* different annual values, and the result is their plain mean.
C9_Witness ==
    /\ pc = "ts"
    /\ \A c \in GridCells : cell_area[c] = I(MaxArea)
    /\ MaxArea > 1
    /\ ValidCells = GridCells
    /\ \E c, e \in GridCells : t_annual[c] # t_annual[e]
    /\ t_ts = MeanOverAll

\* C10: the divisor is total_area, the sum of cell_area over every cell of
\* the grid, whether or not the field is missing there: the result is the
\* sum of value * area over the valid cells divided by the area of all
\* cells.
C10_DenominatorIsTotalArea ==
    pc = "ts" =>
        /\ total_area = RatSum(GridCells, AreaOfAll)
        /\ t_ts = FDiv(RatSum(ValidCells, FieldTimesArea),
                       RatSum(GridCells, AreaOfAll))

\* C10 witness: a cell of positive area is missing, another holds a value,
\* and the result is not the quotient by the area of the valid cells.
C10_Witness ==
    /\ pc = "ts"
    /\ \E c \in GridCells \ ValidCells : cell_area[c] # I(0)
    /\ \E c \in ValidCells : cell_area[c] # I(0)
    /\ IsNum(t_ts)
    /\ t_ts # FDiv(RatSum(ValidCells, FieldTimesArea),
                   RatSum(ValidCells, [c \in ValidCells |-> cell_area[c]]))

\* C11 as stated: when the weights sum to exactly zero the reduction
\* signals a division by zero instead of yielding NaN or an infinity.
C11_ZeroWeightSumSignals ==
    (pc = "ts" /\ total_area = I(0)) =>
        /\ t_ts = Raise
        /\ ~IsNaN(t_ts) /\ ~IsInf(t_ts)

\* C11 amended: when the (non-negative) weights sum to exactly zero the
\* reduction signals nothing: the numerator is 0 as well and the result at
\* that index is silently NaN (0 / 0).
C11_ZeroWeightSumGivesNaN ==
    (pc = "ts" /\ total_area = I(0)) =>
        /\ t_ts # Raise
        /\ RatSum(ValidCells, FieldTimesArea) = I(0)
        /\ t_ts = NaN

\* C11 witness: every cell area is zero, the field holds values that are
\* not zero, and the series value is NaN.
C11_Witness ==
    /\ pc = "ts"
    /\ total_area = I(0)
    /\ \A c \in GridCells : cell_area[c] = I(0)
    /\ \E c \in ValidCells : t_annual[c] # I(0)
    /\ t_ts = NaN

\* The cells that have a valid month in the k-th year.
CellsWithValue(k) == {c \in ObsCells : ValidPos(k, c) # {}}

\* C20: the value of the series at a year is the unweighted mean, over
\* the cells that have a finite annual value that year, of those annual
\* values; a cell with no valid month is left out and the value is a
\* number as long as one cell has a valid month (NaN when none has).
C20_SpatialMeanSkipsEmptyCells ==
    pc = "obs_s" =>
        \A k \in 1 .. Len(obs_s) :
            LET V == CellsWithValue(k)
            IN  IF V = {} THEN obs_s[k] = NaN
                ELSE /\ IsNum(obs_s[k])
                     /\ V = {c \in ObsCells : IsNum(obs_ratio[k][c])}
                     /\ FMul(obs_s[k], I(Cardinality(V)))
                          = RatSum(V, [c \in V |-> obs_ratio[k][c]])

\* C20 witness: in a year of at least two months one cell has no valid
\* month, the other has a value that is not zero, and the series equals
\* that value.
C20_Witness ==
    /\ pc = "obs_s"
    /\ \E k \in 1 .. Len(obs_s), c, c2 \in ObsCells :
          /\ Cardinality(PosInYear(k)) >= 2
          /\ ValidPos(k, c) = {}
          /\ CellsWithValue(k) = {c2}
          /\ obs_ratio[k][c2] # I(0)
          /\ obs_s[k] = obs_ratio[k][c2]

\* The samples handed to the resample: those of t in the selected years.
SelAxis == SelTime(t_time)

\* The set of the samples of a time axis.
SamplesOf(axis) == {axis[i] : i \in 1 .. Len(axis)}

\* The annual grouping is examined on the first months of a time axis,
\* enough to span three calendar years.
AnnualLen == 30
AnnualAxis(axis) ==
    SubSeq(axis, 1, IF Len(axis) < AnnualLen THEN Len(axis) ELSE AnnualLen)

\* Every period of a "QS-DEC" resample starts in December, March, June or
\* September, three months after the one before, and holds only samples
\* of its own three months.
PeriodsAreCalendarQuarters(periods) ==
    \A k \in 1 .. Len(periods) :
        /\ MonthOf(periods[k].label) \in {12, 3, 6, 9}
        /\ k > 1 => periods[k].label = periods[k - 1].label + 3
        /\ periods[k].months \subseteq periods[k].label .. (periods[k].label + 2)

\* Every sample of S lies in exactly one period, and the periods hold
\* nothing but samples of S.
PeriodsPartition(periods, S) ==
    /\ \A m \in S : \E k \in 1 .. Len(periods) : m \in periods[k].months
    /\ \A k \in 1 .. Len(periods) :
          /\ periods[k].months \subseteq S
          /\ \A j \in (k + 1) .. Len(periods) :
                periods[k].months \cap periods[j].months = {}

\* The "AS" groups of a time axis are the calendar years from the first
\* sample's to the last sample's, each sample in exactly one of them and
\* between that year's 1 January and the next.
YearsPartition(axis) ==
    \E yrs \in {ResampleYears(axis)} :
    \E pos \in {[k \in 1 .. Len(yrs) |-> YearPos(axis, yrs[k], 1)]} :
        /\ \A k \in 1 .. Len(yrs) :
              /\ k > 1 => yrs[k] = yrs[k - 1] + 1
              /\ \A j \in 1 .. Len(pos[k]) :
                    /\ axis[pos[k][j]] >= MonthIdx(yrs[k], 1)
                    /\ axis[pos[k][j]] < MonthIdx(yrs[k] + 1, 1)
        /\ \A i \in 1 .. Len(axis) :
              Cardinality({k \in 1 .. Len(yrs) :
                  \E j \in 1 .. Len(pos[k]) : pos[k][j] = i}) = 1

\* C14: the resample cuts the time axis into contiguous, non-overlapping
\* periods that start at calendar-period starts, every sample lies in
\* exactly one period, inside that period's calendar span, and every
\* period has one entry in the output: for "QS-DEC" (the periods start in
\* December, March, June or September and follow one another three
\* months apart) and for "AS" (the periods are the calendar years from the
\* first sample's to the last sample's).
C14_ResamplePartitionsTime ==
    pc = "seasons" =>
        \E ax \in {SelAxis} :
            /\ PeriodsAreCalendarQuarters(resampled)
            /\ PeriodsPartition(resampled, SamplesOf(ax))
            /\ YearsPartition(AnnualAxis(ax))

\* C14 witness: the data cover the selected years and the resample has
\* emitted more than one hundred periods, the first and the last holding
\* fewer months than the others.
C14_Witness ==
    /\ pc = "seasons"
    /\ CoversSelYears
    /\ Len(resampled) > 100
    /\ Cardinality(resampled[1].months) = 2
    /\ Cardinality(resampled[2].months) = 3
    /\ Cardinality(resampled[Len(resampled)].months) = 1
    /\ Len(ResampleYears(AnnualAxis(SelAxis))) = 3

\* C15: completeness is not enforced.  When the selected samples start
\* after the first month of a quarter, or end before its last month, that
\* quarter is still emitted, as the first (last) period, and averages
\* exactly the samples present, fewer than three months; one period is
\* emitted for every quarter touched and nothing is raised.
C15_PartialPeriodsAreEmitted ==
    (pc = "seasons" /\ SelAxis # <<>>) =>
        \E first \in {SelAxis[1]} :
        \E last \in {SelAxis[Len(SelAxis)]} :
        \E n \in {Len(resampled)} :
            /\ n = ((QuarterStart(last) - QuarterStart(first)) \div 3) + 1
            /\ first # QuarterStart(first) =>
                  /\ resampled[1].label = QuarterStart(first)
                  /\ resampled[1].months
                       = {m \in first .. (QuarterStart(first) + 2) : m <= last}
                  /\ resampled[1].months # {}
                  /\ Cardinality(resampled[1].months) < 3
            /\ last # QuarterStart(last) + 2 =>
                  /\ resampled[n].label = QuarterStart(last)
                  /\ resampled[n].months
                       = {m \in QuarterStart(last) .. last : m >= first}
                  /\ resampled[n].months # {}
                  /\ Cardinality(resampled[n].months) < 3

\* C15 witness: on data covering the selected years the first period
\* emitted is December 1978 with January and February 1979 only, and the
\* last is December 2012 with that December only.
C15_Witness ==
    /\ pc = "seasons"
    /\ CoversSelYears
    /\ resampled[1].label = MonthIdx(SelFirstYear - 1, 12)
    /\ resampled[1].months = {MonthIdx(SelFirstYear, 1), MonthIdx(SelFirstYear, 2)}
    /\ resampled[Len(resampled)].label = MonthIdx(SelLastYear, 12)
    /\ resampled[Len(resampled)].months = {MonthIdx(SelLastYear, 12)}

---------------------------------------------------------------------------
(* Specification SpecChunks: the chunk layout linear_trend works on.  An   *)
(* array carries, per axis, the tuple of its chunk sizes (dask's .chunks); *)
(* indices are numbered from 1.  The member axis is not rechunked by the   *)
(* notebook and is left out.                                               *)

\* chunk({"lat": 20, "lon": 20, "time": -1})
LatLonChunk == 20
WholeAxis == -1

\* Largest length of the lat and of the lon axis.
MaxDim == 45

\* Chunk sizes of the time axis of winter_seasons before it is rechunked.
SrcTimeChunks == {1, 12}

\* Only the whole chunks of an axis are laid out; a remainder is dropped.
Rechunk_full_only(n, size) ==
    IF size = WholeAxis THEN <<n>>
    ELSE [c \in 1 .. (n \div size) |-> size]

\* .chunk({dim: size}) along an axis of length n: -1 asks for one chunk
\* over the whole axis, a size for chunks of that size and a shorter last
\* one for the remainder.
Rechunk(n, size) ==
    IF size = WholeAxis THEN <<n>>
    ELSE [c \in 1 .. ((n + size - 1) \div size) |->
            IF c * size <= n THEN size ELSE n - (c - 1) * size]

\* First index of chunk c of an axis chunked as sizes.
RECURSIVE ChunkStart(_, _)
ChunkStart(sizes, c) ==
    IF c = 1 THEN 1 ELSE ChunkStart(sizes, c - 1) + sizes[c - 1]

\* The indices chunk c holds.
ChunkRange(sizes, c) ==
    ChunkStart(sizes, c) .. (ChunkStart(sizes, c) + sizes[c] - 1)

InitChunks ==
    /\ pc = "winter_seasons"
    /\ \E nlat \in 1 .. MaxDim, nlon \in 1 .. MaxDim, st \in SrcTimeChunks :
          /\ dims = [time |-> ExpectedSeasons, lat |-> nlat, lon |-> nlon]
          /\ chunks = [time |-> Rechunk(ExpectedSeasons, st),
                       lat |-> Rechunk(nlat, WholeAxis),
                       lon |-> Rechunk(nlon, WholeAxis)]
    /\ trend_chunks = <<>>
    /\ SlopeIdle
    /\ SeasonsIdle
    /\ ObsIdle
    /\ AreaIdle
    /\ TrendIdle
    /\ FigureIdle
    /\ LonIdle

\* winter_seasons.chunk({"lat": 20, "lon": 20, "time": -1})
ChunkWinterSeasons ==
    /\ pc = "winter_seasons"
    /\ chunks' = [time |-> Rechunk(dims.time, WholeAxis),
                  lat |-> Rechunk(dims.lat, LatLonChunk),
                  lon |-> Rechunk(dims.lon, LatLonChunk)]
    /\ pc' = "rechunked"
    /\ UNCHANGED <<dims, trend_chunks>>
    /\ UNCHANGED <<slopeVars, seasonVars, obsVars,
                   areaVars, trendVars, figVars, lonVars>>

\* linear_trend: da_chunk = da.chunk({dim: -1})
ChunkCoreDim ==
    /\ pc = "rechunked"
    /\ chunks' = [chunks EXCEPT !.time = Rechunk(dims.time, WholeAxis)]
    /\ pc' = "da_chunk"
    /\ UNCHANGED <<dims, trend_chunks>>
    /\ UNCHANGED <<slopeVars, seasonVars, obsVars,
                   areaVars, trendVars, figVars, lonVars>>

\* linear_trend: xr.apply_ufunc(..., input_core_dims=[[dim]],
\* dask="parallelized"): one output block per lat/lon chunk; a core
\* dimension in several chunks is refused.
ApplyUfunc ==
    /\ pc = "da_chunk"
    /\ IF Len(chunks.time) = 1
       THEN /\ trend_chunks' = [lat |-> chunks.lat, lon |-> chunks.lon]
            /\ pc' = "trend"
       ELSE /\ trend_chunks' = trend_chunks
            /\ pc' = "ValueError"
    /\ UNCHANGED <<dims, chunks>>
    /\ UNCHANGED <<slopeVars, seasonVars, obsVars,
                   areaVars, trendVars, figVars, lonVars>>

NextChunks == ChunkWinterSeasons \/ ChunkCoreDim \/ ApplyUfunc

SpecChunks == InitChunks /\ [][NextChunks]_vars

\* The chunks of sizes tile 1 .. n: every index lies in exactly one chunk
\* and no chunk reaches outside the axis.
Tiles(sizes, n) ==
    \E R \in {[c \in 1 .. Len(sizes) |-> ChunkRange(sizes, c)]} :
        /\ \A i \in 1 .. n :
              Cardinality({c \in 1 .. Len(sizes) : i \in R[c]}) = 1
        /\ \A c \in 1 .. Len(sizes) : R[c] # {} /\ R[c] \subseteq 1 .. n

\* Every chunk but the last has exactly edge indices, the last at most.
EdgeChunks(sizes, edge) ==
    \A c \in 1 .. Len(sizes) :
        IF c < Len(sizes) THEN sizes[c] = edge
        ELSE sizes[c] >= 1 /\ sizes[c] <= edge

\* C18: in linear_trend the time axis is one chunk, so the whole time
\* series of every lat/lon slice lies in the one chunk that holds the
\* slice, and the lat and lon chunks of edge 20 tile their axes with
\* neither gap nor overlap; the output has one block per lat/lon chunk.
C18_ChunksTileSlicesWhole ==
    pc \in {"da_chunk", "trend"} =>
        /\ Len(chunks.time) = 1
        /\ ChunkRange(chunks.time, 1) = 1 .. dims.time
        /\ Tiles(chunks.lat, dims.lat)
        /\ Tiles(chunks.lon, dims.lon)
        /\ EdgeChunks(chunks.lat, LatLonChunk)
        /\ EdgeChunks(chunks.lon, LatLonChunk)
        /\ pc = "trend" =>
              trend_chunks = [lat |-> chunks.lat, lon |-> chunks.lon]

\* C18 witness: a 45 x 41 grid whose 34 seasons came in 34 chunks is
\* laid out as 3 x 3 blocks, the last ones 5 and 1 wide, each with the
\* 34 seasons in one chunk.
C18_Witness ==
    /\ pc = "trend"
    /\ dims = [time |-> 34, lat |-> 45, lon |-> 41]
    /\ chunks.time = <<34>>
    /\ chunks.lat = <<20, 20, 5>>
    /\ chunks.lon = <<20, 20, 1>>
    /\ trend_chunks = [lat |-> <<20, 20, 5>>, lon |-> <<20, 20, 1>>]

---------------------------------------------------------------------------
(* Specification SpecTrend: winter_trends = linear_trend(...).load() *     *)
(* len(winter_seasons.time) on a field of two members, TrendLat           *)
(* latitudes and one longitude.  linear_trend builds one task per chunk;   *)
(* .load() hands the tasks to the workers of the Client, which run them    *)
(* in any order, at most nworkers at a time, and gathers the blocks.  A    *)
(* task may fail (a read of the remote store, a lost worker).              *)

\* Number of winter seasons on the time axis of the modelled field.
TrendLen == 3

\* Length of the lat axis: one chunk of 20 and a remainder.
TrendLat == 21

\* Largest number of worker slots.
MaxWorkers == 2

Members == {1, 2}
Lons == {1}

\* The index space of the field and of its trend.
Indices == Members \X (1 .. TrendLat) \X Lons

\* Time series a slice may hold: no finite value at all, a convex
\* series, a series whose last season is missing, and a linear one.
AllMissing == [i \in 1 .. TrendLen |-> NaN]
Convex == [i \in 1 .. TrendLen |-> I((i - 1) * (i - 1))]
GapAtEnd == [i \in 1 .. TrendLen |-> IF i = TrendLen THEN NaN ELSE I(TrendLen - i)]
Linear == [i \in 1 .. TrendLen |-> I(LinearAt(i - 1))]
Series == {AllMissing, Convex, GapAtEnd, Linear}

\* The slices that open a block of the member-wise 20-latitude layout.
BlockHeads == {<<1, 1, 1>>, <<2, LatLonChunk + 1, 1>>}

\* The fields: one series on the slices that open a block, one on the
\* others.
Fields ==
    {[idx \in Indices |-> IF idx \in BlockHeads THEN sr[1] ELSE sr[2]] :
        sr \in Series \X Series}

\* The positions of the chunks of a layout, and the indices chunk c holds.
ChunkIds(ch) ==
    (1 .. Len(ch.member)) \X (1 .. Len(ch.lat)) \X (1 .. Len(ch.lon))

\* Index inside chunk c of the global index idx, and back.
LocalOf(ch, c, idx) ==
    <<idx[1] - ChunkStart(ch.member, c[1]) + 1,
      idx[2] - ChunkStart(ch.lat, c[2]) + 1,
      idx[3] - ChunkStart(ch.lon, c[3]) + 1>>

GlobalOf(ch, c, l) ==
    <<l[1] + ChunkStart(ch.member, c[1]) - 1,
      l[2] + ChunkStart(ch.lat, c[2]) - 1,
      l[3] + ChunkStart(ch.lon, c[3]) - 1>>

\* The shape of block c: its local indices.
LocalIdx(ch, c) ==
    (1 .. ch.member[c[1]]) \X (1 .. ch.lat[c[2]]) \X (1 .. ch.lon[c[3]])

\* The chunk that holds the global index idx.
ChunkOf(ch, idx) ==
    CHOOSE c \in ChunkIds(ch) :
        /\ idx[1] \in ChunkRange(ch.member, c[1])
        /\ idx[2] \in ChunkRange(ch.lat, c[2])
        /\ idx[3] \in ChunkRange(ch.lon, c[3])

\* The finite mask of the first slice of the block is used for all of its
\* slices.
apply_ufunc_block_shared_mask(field, ch, c) ==
    LET fin == finite_indexes(field[GlobalOf(ch, c, <<1, 1, 1>>)])
    IN  [l \in LocalIdx(ch, c) |->
            IF CountTrue(fin) < 2 THEN NaN
            ELSE polyfit_slope(MaskSelect(arange(TrendLen), fin),
                               MaskSelect(field[GlobalOf(ch, c, l)], fin))]

\* The task of chunk c: apply_ufunc(calc_slope, vectorize=True,
\* input_core_dims=[[dim]]) calls calc_slope once per slice of the block,
\* on the slice's whole time series.
apply_ufunc_block(field, ch, c) ==
    [l \in LocalIdx(ch, c) |-> calc_slope(field[GlobalOf(ch, c, l)])]

\* The chunk positions in canonical (row-major) order.
ChunkSeq(ch) ==
    LET nl == Len(ch.lat)
        nj == Len(ch.lon)
    IN  [k \in 1 .. (Len(ch.member) * nl * nj) |->
            <<((k - 1) \div (nl * nj)) + 1,
              (((k - 1) \div nj) % nl) + 1,
              ((k - 1) % nj) + 1>>]

\* The blocks are laid out in the order in which their tasks finished.
Concat_by_completion(blocks, finished, ch) ==
    [idx \in Indices |->
        LET c == ChunkOf(ch, idx)
            k == CHOOSE r \in 1 .. Len(ChunkSeq(ch)) : ChunkSeq(ch)[r] = c
            b == blocks[finished[k]]
            l == LocalOf(ch, c, idx)
        IN  IF l \in DOMAIN b THEN b[l] ELSE NaN]

\* The assembled array: every block is looked up by the position of its
\* chunk, so each value lands at the index its slice has in the field;
\* the order in which the tasks finished plays no part.
Concat(blocks, finished, ch) ==
    [idx \in Indices |->
        LET c == ChunkOf(ch, idx)
        IN  blocks[c][LocalOf(ch, c, idx)]]

\* A failed chunk is filled with NaN and the rest is returned.
Gather_fill_failed(tasks, blocks, finished, ch) ==
    IF \A c \in DOMAIN tasks : tasks[c] \in {"done", "erred"}
    THEN [state |-> "loaded",
          value |-> Concat([c \in DOMAIN tasks |->
                              IF tasks[c] = "done" THEN blocks[c]
                              ELSE [l \in LocalIdx(ch, c) |-> NaN]],
                           finished, ch)]
    ELSE [state |-> "loading", value |-> <<>>]

\* What .load() has to hand the caller: the exception of a failed task as
\* soon as there is one, the assembled array once every task is done.
Gather(tasks, blocks, finished, ch) ==
    IF \E c \in DOMAIN tasks : tasks[c] = "erred"
    THEN [state |-> "raised", value |-> <<>>]
    ELSE IF \A c \in DOMAIN tasks : tasks[c] = "done"
    THEN [state |-> "loaded", value |-> Concat(blocks, finished, ch)]
    ELSE [state |-> "loading", value |-> <<>>]

\* len(winter_seasons.time): the length of the time axis.
LenTime(field) == Len(field[CHOOSE idx \in DOMAIN field : TRUE])

\* The factor is the number of finite seasons of each slice.
Scale_finite_count(tr, field) ==
    [idx \in DOMAIN tr |->
        FMul(tr[idx], I(CountTrue(finite_indexes(field[idx]))))]

\* trend * len(winter_seasons.time)
Scale(tr, field) ==
    [idx \in DOMAIN tr |-> FMul(tr[idx], I(LenTime(field)))]

Running == {c \in DOMAIN task : task[c] = "running"}

InitTrend ==
    /\ pc = "lazy"
    /\ da \in Fields
    /\ nworkers \in 1 .. MaxWorkers
    /\ dims = [member |-> Cardinality(Members), time |-> TrendLen,
               lat |-> TrendLat, lon |-> Cardinality(Lons)]
    /\ \E mc \in {1, WholeAxis} :
          chunks = [member |-> Rechunk(Cardinality(Members), mc),
                    time |-> Rechunk(TrendLen, WholeAxis),
                    lat |-> Rechunk(TrendLat, LatLonChunk),
                    lon |-> Rechunk(Cardinality(Lons), LatLonChunk)]
    /\ trend_chunks = [lat |-> chunks.lat, lon |-> chunks.lon]
    /\ task = [c \in ChunkIds(chunks) |-> "pending"]
    /\ block = [c \in ChunkIds(chunks) |-> <<>>]
    /\ order = <<>>
    /\ trend = <<>>
    /\ winter_trends = <<>>
    /\ SlopeIdle
    /\ SeasonsIdle
    /\ ObsIdle
    /\ AreaIdle
    /\ FigureIdle
    /\ LonIdle

\* .load(): the tasks of the graph are submitted.
Load ==
    /\ pc = "lazy"
    /\ pc' = "loading"
    /\ UNCHANGED <<chunkVars, trendVars>>
    /\ UNCHANGED <<slopeVars, seasonVars, obsVars, areaVars, figVars, lonVars>>

\* A free worker slot takes a pending task.
StartTask(c) ==
    /\ pc = "loading"
    /\ task[c] = "pending"
    /\ Cardinality(Running) < nworkers
    /\ task' = [task EXCEPT ![c] = "running"]
    /\ UNCHANGED <<pc, da, nworkers, block, order, trend, winter_trends>>
    /\ UNCHANGED <<chunkVars, slopeVars, seasonVars,
                   obsVars, areaVars, figVars, lonVars>>

\* A running task returns its block.
FinishTask(c) ==
    /\ pc = "loading"
    /\ task[c] = "running"
    /\ task' = [task EXCEPT ![c] = "done"]
    /\ block' = [block EXCEPT ![c] = apply_ufunc_block(da, chunks, c)]
    /\ order' = Append(order, c)
    /\ UNCHANGED <<pc, da, nworkers, trend, winter_trends>>
    /\ UNCHANGED <<chunkVars, slopeVars, seasonVars,
                   obsVars, areaVars, figVars, lonVars>>

\* A running task ends in an exception.
FailTask(c) ==
    /\ pc = "loading"
    /\ task[c] = "running"
    /\ task' = [task EXCEPT ![c] = "erred"]
    /\ UNCHANGED <<pc, da, nworkers, block, order, trend, winter_trends>>
    /\ UNCHANGED <<chunkVars, slopeVars, seasonVars,
                   obsVars, areaVars, figVars, lonVars>>

\* .load() ends: it returns the assembled array, or raises the exception
\* of a failed task, in which case no name is bound and the tasks still
\* wanted by nobody are released.
EndLoad ==
    /\ pc = "loading"
    /\ \E g \in {Gather(task, block, order, chunks)} :
          /\ g.state # "loading"
          /\ pc' = g.state
          /\ trend' = g.value
          /\ task' = [c \in DOMAIN task |->
                         IF task[c] \in {"pending", "running"} THEN "released"
                         ELSE task[c]]
    /\ UNCHANGED <<da, nworkers, block, order, winter_trends>>
    /\ UNCHANGED <<chunkVars, slopeVars, seasonVars,
                   obsVars, areaVars, figVars, lonVars>>

\* ... * len(winter_seasons.time)
ScaleByLength ==
    /\ pc = "loaded"
    /\ winter_trends' = Scale(trend, da)
    /\ pc' = "winter_trends"
    /\ UNCHANGED <<da, nworkers, task, block, order, trend>>
    /\ UNCHANGED <<chunkVars, slopeVars, seasonVars,
                   obsVars, areaVars, figVars, lonVars>>

NextTrend ==
    \/ Load
    \/ \E c \in DOMAIN task : StartTask(c)
    \/ \E c \in DOMAIN task : FinishTask(c)
    \/ \E c \in DOMAIN task : FailTask(c)
    \/ EndLoad
    \/ ScaleByLength

SpecTrend == InitTrend /\ [][NextTrend]_vars

\* The array linear_trend(field).load() returns when no task fails.
linear_trend(field, ch) ==
    Concat([c \in ChunkIds(ch) |-> apply_ufunc_block(field, ch, c)],
           ChunkSeq(ch), ch)

\* C12: whatever the number of workers and the order in which the tasks
\* finished, the loaded trend holds at every (member, lat, lon) index the
\* slope of that index's own time series, and the values of every block
\* stand at the indices of the block's chunk.
C12_TrendIndependentOfSchedule ==
    pc \in {"loaded", "winter_trends"} =>
        /\ DOMAIN trend = Indices
        /\ \A idx \in Indices : trend[idx] = calc_slope(da[idx])
        /\ \A c \in ChunkIds(chunks) : \A l \in LocalIdx(chunks, c) :
              trend[GlobalOf(chunks, c, l)] = block[c][l]

\* C12 witness: two workers finished the four tasks in the reverse of the
\* canonical order, and the slopes of the first two latitudes differ.
C12_Witness ==
    /\ pc = "loaded"
    /\ nworkers = 2
    /\ order = <<(<<2, 2, 1>>), (<<2, 1, 1>>), (<<1, 2, 1>>), (<<1, 1, 1>>)>>
    /\ da[<<1, 1, 1>>] = GapAtEnd
    /\ da[<<1, 2, 1>>] = Convex
    /\ trend[<<1, 1, 1>>] = I(-1)
    /\ trend[<<1, 2, 1>>] = I(TrendLen - 1)

\* C13: once a task has failed the call of .load() never returns an
\* array: the trend and the scaled trend stay unbound; and an array that
\* was returned has every task done and a value at every index.
C13_FailedChunkFailsLoad ==
    /\ (\E c \in DOMAIN task : task[c] = "erred") =>
          /\ pc \in {"loading", "raised"}
          /\ trend = <<>>
          /\ winter_trends = <<>>
    /\ pc \in {"loaded", "winter_trends"} =>
          /\ \A c \in DOMAIN task : task[c] = "done"
          /\ DOMAIN trend = Indices
          /\ \A c \in DOMAIN task : \A l \in LocalIdx(chunks, c) :
                trend[GlobalOf(chunks, c, l)] = block[c][l]

\* C13 witness: .load() has raised although another task had finished
\* its block; the tasks left were released and nothing is bound.
C13_Witness ==
    /\ pc = "raised"
    /\ \E c \in DOMAIN task : task[c] = "erred"
    /\ \E c \in DOMAIN task : task[c] = "done" /\ block[c] # <<>>
    /\ \E c \in DOMAIN task : task[c] = "released"
    /\ trend = <<>>

\* C16: for every field that agrees with the loaded one on the time
\* series of a slice, whatever it holds on the other slices, linear_trend
\* gives at that slice's index the slope it gave here.
C16_SlicesAreIndependent ==
    pc = "loaded" =>
        \A other \in Fields :
            \E tr \in {linear_trend(other, chunks)} :
                \A idx \in Indices :
                    other[idx] = da[idx] => tr[idx] = trend[idx]

\* C16 witness: the slices that open a block are all-missing, the others
\* convex with slope TrendLen - 1, and another field has the same convex
\* slices next to slices that are missing the last season only.
C16_Witness ==
    /\ pc = "loaded"
    /\ da[<<1, 1, 1>>] = AllMissing
    /\ da[<<1, 2, 1>>] = Convex
    /\ trend[<<1, 1, 1>>] = NaN
    /\ trend[<<1, 2, 1>>] = I(TrendLen - 1)
    /\ \E other \in Fields :
          /\ other[<<1, 1, 1>>] = GapAtEnd
          /\ other[<<1, 2, 1>>] = da[<<1, 2, 1>>]

\* C19: the winter trend at every index is the slope of the index's
\* series times the length of the time axis, which counts the seasons
\* whose value is missing there; a NaN slope gives a NaN trend.
C19_TrendTimesSeasonCount ==
    pc = "winter_trends" =>
        /\ DOMAIN winter_trends = Indices
        /\ \A idx \in Indices :
              /\ Len(da[idx]) = dims.time
              /\ winter_trends[idx] = FMul(calc_slope(da[idx]), I(dims.time))
              /\ IsNaN(trend[idx]) => IsNaN(winter_trends[idx])

\* C19 witness: a slice whose last season is missing has slope -1 and
\* trend -TrendLen, and an all-missing slice has trend NaN.
C19_Witness ==
    /\ pc = "winter_trends"
    /\ \E idx \in Indices :
          /\ da[idx] = GapAtEnd
          /\ CountTrue(finite_indexes(da[idx])) = TrendLen - 1
          /\ trend[idx] = I(-1)
          /\ winter_trends[idx] = I(-TrendLen)
    /\ \E idx \in Indices :
          /\ da[idx] = AllMissing
          /\ IsNaN(trend[idx])
          /\ IsNaN(winter_trends[idx])

---------------------------------------------------------------------------
(* Specification SpecFigure: the cell that draws Figure 4, one statement   *)
(* of the loop body per step.  axs is the 8 x 4 array plt.subplots         *)
(* returned, indexed from 0; an entry is the subplot index of the axes     *)
(* make_map_plot returned for it, 0 while it still holds the axes of       *)
(* plt.subplots.                                                           *)

numPlotRows == 8
numPlotCols == 4

\* for ensemble_index in range(30)
NumMemberPlots == 30

\* The row is the quotient by the number of rows.
PlotRow_by_rows(e) == e \div numPlotRows

\* plotRow = ensemble_index // numPlotCols
PlotRow(e) == e \div numPlotCols

\* plotCol = ensemble_index % numPlotCols
PlotCol(e) == e % numPlotCols

\* plt.subplot(nrows, ncols, index): the grid cell (row, column), from 0,
\* that the 1-based index names, counted along the rows.
SubplotCell(nrows, ncols, index) ==
    <<(index - 1) \div ncols, (index - 1) % ncols>>

\* plt.subplot accepts the indices 1 .. nrows * ncols only.
SubplotOk(nrows, ncols, index) == index >= 1 /\ index <= nrows * ncols

\* cplot, axs[r, c] = make_map_plot(numPlotRows, numPlotCols, index, ...):
\* the state of pc and axs after the statement, run from position next.
StoreAxes(a, r, c, index, next) ==
    IF ~SubplotOk(numPlotRows, numPlotCols, index)
    THEN [pc |-> "ValueError", axs |-> a]
    ELSE IF ~(r \in DOMAIN a /\ c \in DOMAIN a[r])
    THEN [pc |-> "IndexError", axs |-> a]
    ELSE [pc |-> next, axs |-> [a EXCEPT ![r][c] = index]]

InitFigure ==
    /\ pc = "for"
    /\ ensemble_index = -1
    /\ plot_index = 0
    /\ plotRow = 0
    /\ plotCol = 0
    /\ axs = [r \in 0 .. (numPlotRows - 1) |->
                [c \in 0 .. (numPlotCols - 1) |-> 0]]
    /\ SlopeIdle
    /\ SeasonsIdle
    /\ ObsIdle
    /\ AreaIdle
    /\ ChunksIdle
    /\ TrendIdle
    /\ LonIdle

\* for ensemble_index in range(30): the next member, or the end of the loop.
ForNext ==
    /\ pc = "for"
    /\ IF ensemble_index + 1 < NumMemberPlots
       THEN ensemble_index' = ensemble_index + 1 /\ pc' = "plot_index"
       ELSE ensemble_index' = ensemble_index /\ pc' = "EM"
    /\ UNCHANGED <<plot_index, plotRow, plotCol, axs>>
    /\ UNCHANGED <<slopeVars, seasonVars, obsVars, areaVars, chunkVars,
                   trendVars, lonVars>>

\* plot_index = ensemble_index + 1
SetPlotIndex ==
    /\ pc = "plot_index"
    /\ plot_index' = ensemble_index + 1
    /\ pc' = "plotRow"
    /\ UNCHANGED <<ensemble_index, plotRow, plotCol, axs>>
    /\ UNCHANGED <<slopeVars, seasonVars, obsVars, areaVars, chunkVars,
                   trendVars, lonVars>>

SetPlotRow ==
    /\ pc = "plotRow"
    /\ plotRow' = PlotRow(ensemble_index)
    /\ pc' = "plotCol"
    /\ UNCHANGED <<ensemble_index, plot_index, plotCol, axs>>
    /\ UNCHANGED <<slopeVars, seasonVars, obsVars, areaVars, chunkVars,
                   trendVars, lonVars>>

SetPlotCol ==
    /\ pc = "plotCol"
    /\ plotCol' = PlotCol(ensemble_index)
    /\ pc' = "make_map_plot"
    /\ UNCHANGED <<ensemble_index, plot_index, plotRow, axs>>
    /\ UNCHANGED <<slopeVars, seasonVars, obsVars, areaVars, chunkVars,
                   trendVars, lonVars>>

\* cplot, axs[plotRow, plotCol] = make_map_plot(..., plot_index, ...)
PlotMember ==
    /\ pc = "make_map_plot"
    /\ \E st \in {StoreAxes(axs, plotRow, plotCol, plot_index, "for")} :
          pc' = st.pc /\ axs' = st.axs
    /\ UNCHANGED <<ensemble_index, plot_index, plotRow, plotCol>>
    /\ UNCHANGED <<slopeVars, seasonVars, obsVars, areaVars, chunkVars,
                   trendVars, lonVars>>

\* cplot, axs[7,2] = make_map_plot(numPlotRows, numPlotCols, 31, ..., 'EM')
PlotEnsembleMean ==
    /\ pc = "EM"
    /\ \E st \in {StoreAxes(axs, 7, 2, 31, "OBS")} :
          pc' = st.pc /\ axs' = st.axs
    /\ UNCHANGED <<ensemble_index, plot_index, plotRow, plotCol>>
    /\ UNCHANGED <<slopeVars, seasonVars, obsVars, areaVars, chunkVars,
                   trendVars, lonVars>>

\* cplot, axs[7,3] = make_map_plot(numPlotRows, numPlotCols, 32, ..., 'OBS')
PlotObservations ==
    /\ pc = "OBS"
    /\ \E st \in {StoreAxes(axs, 7, 3, 32, "colorbar")} :
          pc' = st.pc /\ axs' = st.axs
    /\ UNCHANGED <<ensemble_index, plot_index, plotRow, plotCol>>
    /\ UNCHANGED <<slopeVars, seasonVars, obsVars, areaVars, chunkVars,
                   trendVars, lonVars>>

NextFigure ==
    \/ ForNext
    \/ SetPlotIndex
    \/ SetPlotRow
    \/ SetPlotCol
    \/ PlotMember
    \/ PlotEnsembleMean
    \/ PlotObservations

SpecFigure == InitFigure /\ [][NextFigure]_vars

\* The cells of axs that hold an axes of make_map_plot.
FilledCells ==
    {rc \in (DOMAIN axs) \X (0 .. (numPlotCols - 1)) : axs[rc[1]][rc[2]] # 0}

\* C21: no statement of the cell fails on an index outside the grid;
\* every axes stored in axs[row, col] has the subplot index
\* row * 4 + col + 1, the index of the grid cell plt.subplot draws it in;
\* the member plots made so far fill that many distinct cells; and once
\* the observations are drawn the 32 plots fill the 32 cells of the
\* 8 x 4 grid, subplot indices 1 .. 32, with the ensemble mean at
\* axs[7,2] and the observations at axs[7,3].
C21_SubplotsFillGridInOrder ==
    /\ pc \notin {"IndexError", "ValueError"}
    /\ \A rc \in FilledCells :
          /\ axs[rc[1]][rc[2]] = rc[1] * numPlotCols + rc[2] + 1
          /\ SubplotCell(numPlotRows, numPlotCols, axs[rc[1]][rc[2]]) = rc
    /\ pc = "for" => Cardinality(FilledCells) = ensemble_index + 1
    /\ pc = "colorbar" =>
          /\ Cardinality(FilledCells) = NumMemberPlots + 2
          /\ FilledCells = (0 .. (numPlotRows - 1)) \X (0 .. (numPlotCols - 1))
          /\ {axs[rc[1]][rc[2]] : rc \in FilledCells}
               = 1 .. (numPlotRows * numPlotCols)
          /\ axs[7][2] = NumMemberPlots + 1
          /\ axs[7][3] = NumMemberPlots + 2

\* C21 witness: the figure is complete, member 30 (ensemble_index 29)
\* stands at axs[7,1], the ensemble mean and the observations next to it.
C21_Witness ==
    /\ pc = "colorbar"
    /\ ensemble_index = 29
    /\ axs[0][0] = 1
    /\ axs[1][0] = 5
    /\ axs[7][1] = 30
    /\ axs[7][2] = 31
    /\ axs[7][3] = 32

---------------------------------------------------------------------------
(* Specification SpecLon: ds.assign_coords(lon=((ds.lon + 360) %           *)
(* 360)).sortby('lon') on the observations.  Longitudes are whole          *)
(* degrees; a data column is named by the longitude it was read at.        *)

\* Longitudes an axis may hold: the ends and the middle of [-180, 180],
\* and their neighbours.
LonVals == {-180, -179, -90, -1, 0, 1, 90, 179, 180}

\* The ascending sequence of the elements of a finite set of integers.
RECURSIVE Ascending(_)
Ascending(S) ==
    IF S = {} THEN <<>>
    ELSE LET lo == CHOOSE x \in S : \A z \in S : x <= z
         IN  <<lo>> \o Ascending(S \ {lo})

\* The longitude is shifted by 360 degrees without the reduction.
Remap_no_wrap(lon) == lon + 360

\* (ds.lon + 360) % 360, the remainder having the sign of the divisor.
Remap(lon) == (lon + 360) % 360

\* The position in the sorted axis of position i: the number of
\* positions that come before it, ties in their original order.
Rank(keys, i) ==
    Cardinality({j \in 1 .. Len(keys) :
        keys[j] < keys[i] \/ (keys[j] = keys[i] /\ j <= i)})

\* The coordinate is sorted but the data keep their positions.
sortby_coord_only(keys, cols) ==
    [lon |-> [k \in 1 .. Len(keys) |->
                keys[CHOOSE i \in 1 .. Len(keys) : Rank(keys, i) = k]],
     col |-> cols]

\* .sortby('lon'): the positions are reordered by ascending coordinate
\* (a stable sort), the coordinate and the data together.
sortby(keys, cols) ==
    [lon |-> [k \in 1 .. Len(keys) |->
                keys[CHOOSE i \in 1 .. Len(keys) : Rank(keys, i) = k]],
     col |-> [k \in 1 .. Len(keys) |->
                cols[CHOOSE i \in 1 .. Len(keys) : Rank(keys, i) = k]]]

InitLon ==
    /\ pc = "ds"
    /\ \E S \in SUBSET LonVals :
          /\ ds_lon = Ascending(S)
          /\ ds_col = Ascending(S)
    /\ SlopeIdle
    /\ SeasonsIdle
    /\ ObsIdle
    /\ AreaIdle
    /\ ChunksIdle
    /\ TrendIdle
    /\ FigureIdle

\* ds = ds.assign_coords(lon=((ds.lon + 360) % 360)).sortby('lon')
RemapLongitude ==
    /\ pc = "ds"
    /\ \E srt \in {sortby([i \in 1 .. Len(ds_lon) |-> Remap(ds_lon[i])],
                           ds_col)} :
          /\ ds_lon' = srt.lon
          /\ ds_col' = srt.col
    /\ pc' = "remapped"
    /\ UNCHANGED <<slopeVars, seasonVars, obsVars, areaVars, chunkVars,
                   trendVars, figVars>>

NextLon == RemapLongitude

SpecLon == InitLon /\ [][NextLon]_vars

\* The longitudes the columns were read at lie in [-180, 180).
InHalfOpenRange == \A i \in 1 .. Len(ds_col) : ds_col[i] >= -180 /\ ds_col[i] < 180

\* C22: for an axis of longitudes in [-180, 180), after the remap and
\* the sort every longitude lies in [0, 360), the axis is strictly
\* increasing (so distinct longitudes went to distinct values), no
\* column is lost, a column read at a longitude in [0, 180) keeps that
\* longitude, and every column stands at a longitude that differs from
\* the one it was read at by a multiple of 360 degrees.
C22_RemapKeepsColumnsOnTheirMeridian ==
    (pc = "remapped" /\ InHalfOpenRange) =>
        /\ Len(ds_lon) = Len(ds_col)
        /\ \A i \in 1 .. Len(ds_lon) :
              /\ ds_lon[i] >= 0 /\ ds_lon[i] < 360
              /\ i > 1 => ds_lon[i - 1] < ds_lon[i]
              /\ (ds_lon[i] - ds_col[i]) % 360 = 0
              /\ (ds_col[i] >= 0 /\ ds_col[i] < 180) => ds_lon[i] = ds_col[i]
              /\ ds_col[i] < 0 => ds_lon[i] = ds_col[i] + 360
        /\ \A i, j \in 1 .. Len(ds_col) : i # j => ds_col[i] # ds_col[j]

\* C22 witness: the axis -180, -1, 0, 179 has become 0, 179, 180, 359
\* and the columns have moved with it: the western ones now come last.
C22_Witness ==
    /\ pc = "remapped"
    /\ ds_lon = <<0, 179, 180, 359>>
    /\ ds_col = <<0, 179, -180, -1>>

====
